---- MODULE Spec2Model ----
(***************************************************************************)
(* Model of the itinerary core of the travel planner                       *)
(* (src/travel_agent/itinerary_agent.py): the time parser, the time        *)
(* arithmetic, the payload normalizer, the fallback synthesizer and the    *)
(* top-level entry point ItineraryAgent.process.                           *)
(*                                                                         *)
(* Python strings are sequences of one-character strings, a datetime.time  *)
(* is a record [tag |-> "time", hour, minute], and a Python exception that *)
(* leaves a function is a value whose tag names it.                        *)
(***************************************************************************)
EXTENDS Integers, Sequences, FiniteSets, TLC

(* ---------------------------- bounds ----------------------------------- *)
MaxStrLen == 3        \* longest free-form time string enumerated
MaxNum == 25          \* largest small number used to build "h:m" strings
MaxAddMinutes == 12   \* largest small minutes argument of _add_minutes
MaxDays == 3          \* largest duration_days
MaxPois == 3          \* longest candidate list with freely chosen candidates
MaxUniform == 7       \* longest candidate list of identical candidates
MaxIds == 3           \* number of distinct POI ids offered to TravelSelections

VARIABLES
    tsrc,    \* how the argument of the time function under test was built
    tin,     \* the argument handed to _parse_time / _add_minutes
    tout,    \* what the function returned ("pending" before the call)
    pc,             \* position inside ItineraryAgent.process
    travel_request, \* the TravelPlanRequest
    selected_pois,  \* the candidate list
    response,       \* the model's reply (or its failure)
    daily_plans,    \* the local variable daily_plans of process
    result,         \* what process returned or raised
    selections,      \* the POI lists of a TravelSelections object
    selections_file, \* the POI lists in its selections file
    sel_call,        \* the last call on the object, its argument and result
    flow             \* the AgentState of a workflow run and the node to run next

vars == <<tsrc, tin, tout, pc, travel_request, selected_pois, response,
          daily_plans, result, selections, selections_file, sel_call, flow>>
selVars == <<selections, selections_file, sel_call>>
timeVars == <<tsrc, tin, tout>>
procVars == <<pc, travel_request, selected_pois, response, daily_plans, result>>

(* ------------------------- Python strings ------------------------------ *)
Digit == {"0", "1", "2", "3", "4", "5", "6", "7", "8", "9"}

DigitVal(c) ==
    CASE c = "0" -> 0 [] c = "1" -> 1 [] c = "2" -> 2 [] c = "3" -> 3
      [] c = "4" -> 4 [] c = "5" -> 5 [] c = "6" -> 6 [] c = "7" -> 7
      [] c = "8" -> 8 [] c = "9" -> 9 [] OTHER -> 0

DigitChar(d) ==
    CASE d = 0 -> "0" [] d = 1 -> "1" [] d = 2 -> "2" [] d = 3 -> "3"
      [] d = 4 -> "4" [] d = 5 -> "5" [] d = 6 -> "6" [] d = 7 -> "7"
      [] d = 8 -> "8" [] OTHER -> "9"

\* str.upper() on the characters used here
Upper(s) ==
    LET UpperChar(c) ==
            CASE c = "a" -> "A" [] c = "p" -> "P" [] c = "m" -> "M" [] c = "x" -> "X"
              [] OTHER -> c
    IN  [i \in 1..Len(s) |-> UpperChar(s[i])]

\* str.strip()
RECURSIVE LStrip(_)
LStrip(s) == IF s # <<>> /\ Head(s) = " " THEN LStrip(Tail(s)) ELSE s

RECURSIVE RStrip(_)
RStrip(s) ==
    IF s # <<>> /\ s[Len(s)] = " " THEN RStrip(SubSeq(s, 1, Len(s) - 1)) ELSE s

Strip(s) == RStrip(LStrip(s))

\* sub in s
HasSub(s, sub) ==
    \E i \in 1..(Len(s) - Len(sub) + 1) : SubSeq(s, i, i + Len(sub) - 1) = sub

\* s.split(sub, 1)[0]
BeforeSub(s, sub) ==
    IF HasSub(s, sub)
    THEN LET i == CHOOSE j \in 1..(Len(s) - Len(sub) + 1) :
                     /\ SubSeq(s, j, j + Len(sub) - 1) = sub
                     /\ \A k \in 1..(j - 1) : SubSeq(s, k, k + Len(sub) - 1) # sub
         IN SubSeq(s, 1, i - 1)
    ELSE s

\* s.replace(' ', '')
RemoveSpaces(s) == SelectSeq(s, LAMBDA c : c # " ")

\* s.split(':')
RECURSIVE SplitColon(_)
SplitColon(s) ==
    IF HasSub(s, <<":">>)
    THEN LET p == BeforeSub(s, <<":">>)
         IN <<p>> \o SplitColon(SubSeq(s, Len(p) + 2, Len(s)))
    ELSE <<s>>

AllDigits(s) == \A i \in 1..Len(s) : s[i] \in Digit

RECURSIVE ToInt(_)
ToInt(s) == IF s = <<>> THEN 0 ELSE 10 * ToInt(SubSeq(s, 1, Len(s) - 1)) + DigitVal(s[Len(s)])

\* str(n) for n >= 0
RECURSIVE NumStr(_)
NumStr(n) == IF n < 10 THEN <<DigitChar(n)>> ELSE NumStr(n \div 10) \o <<DigitChar(n % 10)>>

\* "%02d" % n
Pad2(n) == IF n < 10 THEN <<"0", DigitChar(n)>> ELSE NumStr(n)

Max(a, b) == IF a >= b THEN a ELSE b
Min(a, b) == IF a <= b THEN a ELSE b

(* --------------------------- datetime.time ----------------------------- *)
Time(h, m) == [tag |-> "time", hour |-> h, minute |-> m]
ValueError == [tag |-> "ValueError", hour |-> 0, minute |-> 0]
Pending == [tag |-> "pending", hour |-> 0, minute |-> 0]

\* the constructor time(h, m): ValueError outside 0..23 / 0..59
time(h, m) == IF h \in 0..23 /\ m \in 0..59 THEN Time(h, m) ELSE ValueError

\* t.strftime("%H:%M")
strftime(t) == Pad2(t.hour) \o <<":">> \o Pad2(t.minute)

MinuteOfDay(t) == t.hour * 60 + t.minute

DEFAULT_TIME == Time(9, 0)

(* ------------------------ datetime.strptime ---------------------------- *)
\* The directives of the eight formats tried by _parse_time, as the regular
\* expressions of the standard library's _strptime:
\*   %H  2[0-3]|[0-1]\d|\d      %I  1[0-2]|0[1-9]|[1-9]
\*   %M  [0-5]\d|\d             %S  6[0-1]|[0-5]\d|\d
\*   %p  am|pm (ignoring case)  ' ' \s+        ':' itself
time_formats ==
    << <<"H", ":", "M">>,
       <<"I", ":", "M", " ", "p">>,
       <<"I", ":", "M", "p">>,
       <<"H", ":", "M", ":", "S">>,
       <<"I", ":", "M", ":", "S", " ", "p">>,
       <<"I", ":", "M", ":", "S", "p">>,
       <<"I", " ", "p">>,
       <<"H">> >>

\* the values a numeric directive accepts for a one- or two-digit match
DirectiveAccepts(tok, v, width) ==
    CASE tok = "H" -> v <= 23
      [] tok = "M" -> v <= 59
      [] tok = "S" -> v <= 61
      [] tok = "I" -> IF width = 2 THEN v \in 1..12 ELSE v \in 1..9
      [] OTHER -> FALSE

\* the parse states reached from st by matching one directive at st.pos
StrpAdvance(s, st, tok) ==
    LET i == st.pos
        n == Len(s)
    IN  IF tok = ":"
        THEN IF i <= n /\ s[i] = ":" THEN {[st EXCEPT !.pos = i + 1]} ELSE {}
        ELSE IF tok = " "
        THEN {[st EXCEPT !.pos = j] : j \in {k \in (i + 1)..(n + 1) :
                                          \A q \in i..(k - 1) : s[q] = " "}}
        ELSE IF tok = "p"
        THEN IF i + 1 <= n /\ Upper(SubSeq(s, i, i + 1)) \in {<<"A", "M">>, <<"P", "M">>}
             THEN {[st EXCEPT !.pos = i + 2, !.p = Upper(SubSeq(s, i, i + 1))]}
             ELSE {}
        ELSE LET two == IF i + 1 <= n /\ s[i] \in Digit /\ s[i + 1] \in Digit
                           /\ DirectiveAccepts(tok, ToInt(SubSeq(s, i, i + 1)), 2)
                        THEN {[w |-> 2, v |-> ToInt(SubSeq(s, i, i + 1))]}
                        ELSE {}
                 one == IF i <= n /\ s[i] \in Digit
                           /\ DirectiveAccepts(tok, DigitVal(s[i]), 1)
                        THEN {[w |-> 1, v |-> DigitVal(s[i])]}
                        ELSE {}
             IN  {IF tok \in {"H", "I"} THEN [st EXCEPT !.pos = i + o.w, !.hour = o.v]
                  ELSE IF tok = "M" THEN [st EXCEPT !.pos = i + o.w, !.minute = o.v]
                  ELSE [st EXCEPT !.pos = i + o.w] : o \in two \cup one}

RECURSIVE StrpStates(_, _, _)
StrpStates(s, fmt, k) ==
    IF k = 0
    THEN {[pos |-> 1, hour |-> 0, minute |-> 0, p |-> <<>>]}
    ELSE UNION {StrpAdvance(s, st, fmt[k]) : st \in StrpStates(s, fmt, k - 1)}

\* datetime.strptime(s, fmt): the hour and minute of the parsed datetime, or
\* ValueError when the format does not match the whole string
strptime(s, fmt) ==
    LET full == {st \in StrpStates(s, fmt, Len(fmt)) : st.pos = Len(s) + 1}
    IN  IF full = {} THEN ValueError
        ELSE LET st == CHOOSE x \in full : TRUE
                 hour == IF st.p = <<"P", "M">> THEN (IF st.hour # 12 THEN st.hour + 12 ELSE 12)
                         ELSE IF st.p = <<"A", "M">> THEN (IF st.hour = 12 THEN 0 ELSE st.hour)
                         ELSE st.hour
             IN  Time(hour, st.minute)

(* ---------------------------- _parse_time ------------------------------ *)
\* int(str(value).strip()) with the fallback of safe_int
safe_int(value, default) ==
    LET u == Strip(value)
    IN  IF u # <<>> /\ AllDigits(u) THEN ToInt(u) ELSE default

\* a clamp written for a 12-hour clock
clamp_hour_12(h) == Max(0, Min(12, h))

\* max(0, min(23, hours))
clamp_hour(h) == Max(0, Min(23, h))

\* a clamp that forgot the upper bound
clamp_minute_no_upper(m) == Max(0, m)

\* max(0, min(59, minutes))
clamp_minute(m) == Max(0, Min(59, m))

\* the loop over time_formats: the first format that parses
RECURSIVE try_formats(_, _)
try_formats(s, k) ==
    IF k > Len(time_formats) THEN ValueError
    ELSE LET dt == strptime(s, time_formats[k])
         IN  IF dt.tag = "time"
             THEN time(clamp_hour(dt.hour), clamp_minute(dt.minute))
             ELSE try_formats(s, k + 1)

\* the branch for strings with an AM/PM marker; ValueError stands for the
\* exception its try block swallows
parse_12h(s) ==
    LET time_str_clean == RemoveSpaces(Upper(s))
        is_pm == ~HasSub(time_str_clean, <<"A", "M">>)
        time_part == IF is_pm THEN BeforeSub(time_str_clean, <<"P", "M">>)
                     ELSE BeforeSub(time_str_clean, <<"A", "M">>)
        parts == SplitColon(time_part)
        hours0 == IF HasSub(time_part, <<":">>) THEN safe_int(parts[1], 0)
                  ELSE safe_int(time_part, 0)
        minutes0 == IF HasSub(time_part, <<":">>) /\ Len(parts) > 1
                    THEN safe_int(parts[2], 0) ELSE 0
        hours1 == IF is_pm /\ hours0 < 12 THEN hours0 + 12
                  ELSE IF ~is_pm /\ hours0 = 12 THEN 0 ELSE hours0
    IN  time(clamp_hour(hours1), clamp_minute(minutes0))

\* the 24-hour branch; ValueError stands for "fell through to the default"
parse_24h(s) ==
    LET clean_str == [i \in 1..Len(s) |-> IF s[i] \in Digit \/ s[i] = ":" THEN s[i] ELSE " "]
        parts == SelectSeq(SplitColon(clean_str), LAMBDA p : Strip(p) # <<>>)
    IN  IF parts # <<>>
        THEN time(clamp_hour(safe_int(parts[1], 0)),
                  clamp_minute(IF Len(parts) > 1 THEN safe_int(parts[2], 0) ELSE 0))
        ELSE ValueError

\* ItineraryAgent._parse_time (the second definition, which is the one bound
\* to the class).  v is [tag |-> "none"], a time, or [tag |-> "str", s |-> ..]
parse_time(v) ==
    IF v.tag = "none" THEN DEFAULT_TIME
    ELSE IF v.tag = "time"
    THEN LET r == time(clamp_hour(v.hour), clamp_minute(v.minute))
         IN  IF r.tag = "time" THEN r ELSE DEFAULT_TIME
    ELSE LET s0 == Strip(v.s)
             s1 == IF HasSub(s0, <<"-">>) THEN Strip(BeforeSub(s0, <<"-">>)) ELSE s0
             std == try_formats(s1, 1)
             up == Upper(s1)
             h12 == IF HasSub(up, <<"A", "M">>) \/ HasSub(up, <<"P", "M">>)
                    THEN parse_12h(s1) ELSE ValueError
             h24 == parse_24h(s1)
         IN  IF s0 = <<>> THEN DEFAULT_TIME
             ELSE IF std.tag = "time" THEN std
             ELSE IF h12.tag = "time" THEN h12
             ELSE IF h24.tag = "time" THEN h24
             ELSE DEFAULT_TIME

(* ---------------------------- _add_minutes ----------------------------- *)
\* int(minutes): an int stays, a float is truncated towards zero (n holds
\* int(minutes)), a numeric string is read, None / other text / NaN raise
\* TypeError or ValueError (caught: 0), an infinite float raises
\* OverflowError (not caught by the inner handler).
\* First a conversion that rejects floats instead of truncating them.
int_of_integers_only(minutes) ==
    CASE minutes.tag \in {"int", "numstr"} -> [ok |-> TRUE, n |-> minutes.n, err |-> "none"]
      [] minutes.tag \in {"none", "text", "nan", "float"} -> [ok |-> FALSE, n |-> 0, err |-> "ValueError"]
      [] OTHER -> [ok |-> FALSE, n |-> 0, err |-> "OverflowError"]

int_of(minutes) ==
    CASE minutes.tag \in {"int", "float", "numstr"} -> [ok |-> TRUE, n |-> minutes.n, err |-> "none"]
      [] minutes.tag \in {"none", "text", "nan"} -> [ok |-> FALSE, n |-> 0, err |-> "ValueError"]
      [] OTHER -> [ok |-> FALSE, n |-> 0, err |-> "OverflowError"]

\* ItineraryAgent._add_minutes: datetime.combine(today, t) + timedelta, then
\* .time(); every exception ends in the 12:00 default.  The date arithmetic
\* cannot leave year 1..9999 for the magnitudes enumerated here.
\* First an addition that forgets to drop the whole days.
add_minutes_same_day(t, minutes) ==
    IF t.tag # "time" THEN Time(12, 0)
    ELSE LET c == int_of(minutes)
             m == IF c.ok THEN c.n ELSE 0
             total == t.hour * 60 + t.minute + m
             r == time(total \div 60, total % 60)
         IN  IF c.err = "OverflowError" THEN Time(12, 0)
             ELSE IF r.tag = "time" THEN r ELSE Time(12, 0)

add_minutes(t, minutes) ==
    IF t.tag # "time" THEN Time(12, 0)
    ELSE LET c == int_of(minutes)
             m == IF c.ok THEN c.n ELSE 0
             total == t.hour * 60 + t.minute + m
             days == total \div 1440
             within == total - days * 1440
             r == time(within \div 60, within % 60)
         IN  IF c.err = "OverflowError" THEN Time(12, 0)
             ELSE IF r.tag = "time" THEN r ELSE Time(12, 0)

(* ------------------ requests and candidate locations ------------------- *)
NoOrigin == "None"
Destination == "Paris"

\* TravelPlanRequest: origin is None, the destination itself or another
\* place; start_date is set or None
Requests ==
    [destination : {Destination}, duration_days : 1..MaxDays,
     origin : {NoOrigin, Destination, "New York"}, start_date : BOOLEAN]

\* a request object without an `origin` attribute (TravelPlanRequest of
\* base.py has none)
NoOriginAttr == "<no attribute>"

\* ItineraryAgent._calculate_optimal_start_time; reading a missing origin
\* raises AttributeError, which the method answers with 10:00
calculate_optimal_start_time(req, day_num) ==
    IF day_num = 1 /\ req.origin = NoOriginAttr THEN Time(10, 0)
    ELSE IF day_num = 1 /\ req.origin # NoOrigin /\ req.origin # req.destination
    THEN Time(11, 0)
    ELSE IF day_num = req.duration_days /\ req.origin = NoOriginAttr THEN Time(10, 0)
    ELSE IF day_num = req.duration_days /\ req.origin # req.destination
    THEN Time(8, 0)
    ELSE Time(9, 0)

PoiNames == <<"P1", "P2", "P3", "P4", "P5", "P6", "P7", "P8", "P9", "P10">>

IntDur(n) == [tag |-> "int", n |-> n]

\* A candidate is a plain dict ("dict"), a dict {'poi': {...}} ("wrapdict")
\* or a dict {'poi': PointOfInterest(...)} ("wrapobj"); duration_minutes is
\* an int or None.
CandTypes ==
    {[kind |-> "dict", dur |-> IntDur(n)] : n \in {20, 60, 120}}
    \cup {[kind |-> "dict", dur |-> [tag |-> "none", n |-> 0]],
          [kind |-> "wrapdict", dur |-> IntDur(60)],
          [kind |-> "wrapobj", dur |-> IntDur(60)]}

Candidate(c, i) == [kind |-> c.kind, name |-> PoiNames[i], dur |-> c.dur]

CandidateLists ==
    {<<>>}
    \cup UNION {{[i \in 1..n |-> Candidate(f[i], i)] : f \in [1..n -> CandTypes]} : n \in 1..MaxPois}
    \cup UNION {{[i \in 1..n |-> Candidate(c, i)] :
                   c \in {x \in CandTypes : x.kind = "dict" /\ x.dur.tag = "int"}} :
                n \in (MaxPois + 1)..MaxUniform}

(* ------------------------ _create_basic_itinerary ---------------------- *)
Activity(name, start_time, end_time, location, description) ==
    [name |-> name, start_time |-> start_time, end_time |-> end_time,
     location |-> location, description |-> description]

\* DailyItinerary(day=..., date=..., activities=...); the model class of
\* base.py has no date field and drops it
DailyItinerary(day, activities) ==
    [t |-> "DailyItinerary", day |-> day, activities |-> activities]

\* `return self._create_basic_itinerary(travel_request, pois)` of an async
\* method without await: the caller gets the coroutine object, which holds
\* the candidate list it was called with (lines 265, 270, 747, 771, 1105,
\* 1123, 1130, 1604, 1626)
unawaited_fallback(pois) == [kind |-> "coroutine", days |-> <<>>, pois |-> pois]

\* a slice that takes the element at its end index along
PySlice_inclusive(seq, a, b) ==
    LET hi == Min(b + 1, Len(seq))
    IN  IF a < hi THEN SubSeq(seq, a + 1, hi) ELSE <<>>

\* selected_pois[a:b]
PySlice(seq, a, b) ==
    LET hi == Min(b, Len(seq))
    IN  IF a < hi THEN SubSeq(seq, a + 1, hi) ELSE <<>>

pois_per_day(pois, duration_days) ==
    LET k == IF pois # <<>>
             THEN Max(2, Min(4, Len(pois) \div Max(1, duration_days)))
             ELSE 0
    IN  IF k = 0 /\ pois # <<>> THEN 1 ELSE k

\* a slicing that leaves the remainder out of the last day
day_pois_no_remainder(pois, day, duration_days) ==
    LET k == pois_per_day(pois, duration_days)
        start_idx == (day - 1) * k
        end_idx == Min(start_idx + k, Len(pois))
    IN  PySlice(pois, start_idx, end_idx)

day_pois(pois, day, duration_days) ==
    LET k == pois_per_day(pois, duration_days)
        start_idx == (day - 1) * k
        end_idx == Min(start_idx + k, Len(pois))
    IN  IF day = duration_days /\ end_idx < Len(pois)
        THEN PySlice(pois, start_idx, Len(pois))
        ELSE PySlice(pois, start_idx, end_idx)

\* time((t.hour + (t.minute + d) // 60) % 24, (t.minute + d) % 60)
plus_duration(t, d) == time((t.hour + (t.minute + d) \div 60) % 24, (t.minute + d) % 60)

lunch_time == Time(12, 0)
lunch_duration == 60
lunch_end == time(lunch_time.hour, (lunch_time.minute + lunch_duration) % 60)

TimeLess(a, b) == a.hour < b.hour \/ (a.hour = b.hour /\ a.minute < b.minute)

\* one turn of the loop over day_pois; i is the 0-based index; st.err is
\* the exception that left the loop, if any
place_poi(st, item, i, req) ==
    IF st.err # "none" THEN st
    ELSE IF item.kind = "wrapobj" THEN st
    ELSE IF item.dur.tag # "int" THEN [st EXCEPT !.err = "TypeError"]
    ELSE LET name == item.name
             location == req.destination
             description == "Enjoy " \o name
             duration == item.dur.n
             t_end == plus_duration(st.current_time, 30)
             travel == IF i > 0
                       THEN <<Activity("Travel to next location",
                                       strftime(st.current_time), strftime(t_end),
                                       "Traveling to " \o location,
                                       "Travel time to " \o name)>>
                       ELSE <<>>
             start == IF i > 0 THEN t_end ELSE st.current_time
             end_time == plus_duration(start, duration)
             activity == Activity(name, strftime(start), strftime(end_time),
                                  location, description)
             lunch == ~TimeLess(end_time, Time(12, 0)) /\ TimeLess(end_time, Time(13, 0)) /\ i > 0
             lunch_activity == Activity("Lunch Break", strftime(lunch_time),
                                        strftime(lunch_end), "Local Restaurant",
                                        "Time for lunch and relaxation")
         IN  [current_time |-> IF lunch THEN lunch_end ELSE end_time,
              activities |-> st.activities \o travel \o <<activity>>
                             \o (IF lunch THEN <<lunch_activity>> ELSE <<>>),
              err |-> "none"]

RECURSIVE walk_pois(_, _, _)
walk_pois(pois, n, req) ==
    IF n = 0
    THEN [current_time |-> Time(9, 0), activities |-> <<>>, err |-> "none"]
    ELSE place_poi(walk_pois(pois, n - 1, req), pois[n], n - 1, req)

free_day(req) ==
    Activity("Free Day", <<"0", "9", ":", "0", "0">>, <<"1", "7", ":", "0", "0">>,
             req.destination, "Free time to explore at your own pace")

\* a day that forgets the Free Day
day_activities_no_free_day(pois, req) ==
    IF pois = <<>>
    THEN [current_time |-> Time(9, 0), activities |-> <<>>, err |-> "none"]
    ELSE walk_pois(pois, Len(pois), req)

\* the body of the loop over the days: the activities of one day
day_activities(pois, req) ==
    IF pois = <<>>
    THEN [current_time |-> Time(9, 0), activities |-> <<free_day(req)>>, err |-> "none"]
    ELSE walk_pois(pois, Len(pois), req)

\* a synthesizer that opens day 1 with an arrival leg whatever the origin
create_basic_itinerary_with_arrival(req, pois) ==
    LET days == [day \in 1..req.duration_days |->
                    day_activities(day_pois(pois, day, req.duration_days), req)]
        arrival == Activity("Arrive in " \o req.destination,
                            <<"0", "9", ":", "0", "0">>, <<"1", "0", ":", "0", "0">>,
                            req.destination, "Arrival")
    IN  IF \E day \in 1..req.duration_days : days[day].err # "none"
        THEN [kind |-> "raise", days |-> <<>>]
        ELSE [kind |-> "list",
              days |-> [day \in 1..req.duration_days |->
                           DailyItinerary(day, (IF day = 1 THEN <<arrival>> ELSE <<>>)
                                               \o days[day].activities)]]

\* ItineraryAgent._create_basic_itinerary, run to its end (i.e. awaited):
\* the list of DailyItinerary, or the exception that left it
create_basic_itinerary(req, pois) ==
    LET days == [day \in 1..req.duration_days |->
                    day_activities(day_pois(pois, day, req.duration_days), req)]
    IN  IF \E day \in 1..req.duration_days : days[day].err # "none"
        THEN [kind |-> "raise", days |-> <<>>]
        ELSE [kind |-> "list",
              days |-> [day \in 1..req.duration_days |->
                           DailyItinerary(day, days[day].activities)]]

(* --------------------------- the model's reply ------------------------- *)
\* JSON values as the output parser delivers them: dicts (functions from
\* keys to values), lists, strings, ints and None.  Keys and strings are
\* character sequences.
JDict(f) == [t |-> "dict", d |-> f]
JList(l) == [t |-> "list", l |-> l]
JStr(s) == [t |-> "str", s |-> s]
JInt(n) == [t |-> "int", n |-> n]
JNone == [t |-> "none"]

IsDict(v) == v.t = "dict"
IsList(v) == v.t = "list"
IsStr(v) == v.t = "str"

\* key in d
Has(v, k) == k \in DOMAIN v.d

\* d.get(key, default)
Get(v, k, default) == IF Has(v, k) THEN v.d[k] ELSE default

\* bool(v)
Truthy(v) ==
    CASE v.t = "dict" -> DOMAIN v.d # {}
      [] v.t = "list" -> v.l # <<>>
      [] v.t = "str" -> v.s # <<>>
      [] v.t = "int" -> v.n # 0
      [] OTHER -> FALSE

\* key.startswith(prefix)
StartsWith(k, prefix) == Len(k) >= Len(prefix) /\ SubSeq(k, 1, Len(prefix)) = prefix

\* str.lower() on the characters of the keys
Lower(k) ==
    LET LowerChar(c) == CASE c = "D" -> "d" [] c = "A" -> "a" [] c = "Y" -> "y" [] OTHER -> c
    IN  [i \in 1..Len(k) |-> LowerChar(k[i])]

k_trip_name == <<"t", "r", "i", "p", "_", "n", "a", "m", "e">>
k_introduction == <<"i", "n", "t", "r", "o", "d", "u", "c", "t", "i", "o", "n">>
k_daily_itinerary == <<"d", "a", "i", "l", "y", "_", "i", "t", "i", "n", "e", "r", "a", "r", "y">>
k_daily_schedule == <<"d", "a", "i", "l", "y", "_", "s", "c", "h", "e", "d", "u", "l", "e">>
k_schedule == <<"s", "c", "h", "e", "d", "u", "l", "e">>
k_days == <<"d", "a", "y", "s">>
k_day == <<"d", "a", "y">>
k_day1 == <<"d", "a", "y", "1">>
k_day2 == <<"d", "a", "y", "2">>
k_activities == <<"a", "c", "t", "i", "v", "i", "t", "i", "e", "s">>
k_itinerary == <<"i", "t", "i", "n", "e", "r", "a", "r", "y">>
k_plan == <<"p", "l", "a", "n">>
k_activity == <<"a", "c", "t", "i", "v", "i", "t", "y">>
k_name == <<"n", "a", "m", "e">>
k_time == <<"t", "i", "m", "e">>
k_time_slot == <<"t", "i", "m", "e", "_", "s", "l", "o", "t">>
k_start_time == <<"s", "t", "a", "r", "t", "_", "t", "i", "m", "e">>
k_end_time == <<"e", "n", "d", "_", "t", "i", "m", "e">>
k_duration_minutes == <<"d", "u", "r", "a", "t", "i", "o", "n", "_", "m", "i", "n", "u", "t", "e", "s">>

\* key.startswith(('day', 'Day'))
IsDayKey(k) == StartsWith(k, <<"d", "a", "y">>) \/ StartsWith(k, <<"D", "a", "y">>)

\* int(''.join(filter(str.isdigit, x)) or 0)
DayKeyNumber(k) == ToInt(SelectSeq(k, LAMBDA c : c \in Digit))

\* sorted(day keys, key=DayKeyNumber) -- the keys used here have distinct
\* numbers, so the stable sort is determined by them
RECURSIVE SortDayKeys(_)
SortDayKeys(ks) ==
    IF ks = {} THEN <<>>
    ELSE LET k == CHOOSE x \in ks : \A y \in ks : DayKeyNumber(x) <= DayKeyNumber(y)
         IN  <<k>> \o SortDayKeys(ks \ {k})

(* ---------------------- _parse_itinerary_response ---------------------- *)
\* The first pass (lines 388-747).  Its seeds are thrown away at line 760;
\* what survives it is which branch ran, whether it returned or raised, and
\* which of the locals day_num and activities_data it bound.
Pass1(format, ret, day_num, activities_data) ==
    [format |-> format, ret |-> ret, day_num |-> day_num,
     activities_data |-> activities_data]

\* the time fields of one raw activity: False when reading them raises
\* AttributeError (.split on a value that is not a string)
times_readable(item, guarded) ==
    LET time_str == Get(item, k_time, JStr(<<>>))
    IN  IF ~Truthy(time_str) /\ Has(item, k_start_time) /\ Has(item, k_end_time) THEN TRUE
        ELSE IF guarded /\ ~Truthy(time_str) THEN TRUE
        ELSE IsStr(time_str)

\* the loop over the raw activities of one day: False when it raises
activities_readable(acts, guarded) ==
    /\ acts.t \in {"list", "dict", "str"}
    /\ IsList(acts) =>
         \A i \in 1..Len(acts.l) : IsDict(acts.l[i]) => times_readable(acts.l[i], guarded)

dict_items(v) == {i \in 1..Len(v.l) : IsDict(v.l[i])}

parse_pass1(resp, req) ==
    IF ~IsDict(resp) THEN Pass1("none", "raise", FALSE, FALSE)
    ELSE IF Has(resp, k_trip_name) /\ Has(resp, k_introduction) /\ Has(resp, k_daily_itinerary)
    THEN IF ~IsList(resp.d[k_daily_itinerary]) THEN Pass1("triad", "empty_list", FALSE, FALSE)
         ELSE IF dict_items(resp.d[k_daily_itinerary]) # {}
              THEN Pass1("triad", "raise", FALSE, FALSE)
              ELSE Pass1("triad", "empty_list", FALSE, FALSE)
    ELSE IF Has(resp, k_daily_schedule) /\ IsList(resp.d[k_daily_schedule])
    THEN IF /\ \A i \in dict_items(resp.d[k_daily_schedule]) :
                  LET slot == Get(resp.d[k_daily_schedule].l[i], k_time_slot, JStr(<<>>))
                  IN  Truthy(slot) => IsStr(slot)
            /\ req.start_date
         THEN Pass1("daily_schedule", "none", FALSE, FALSE)
         ELSE Pass1("daily_schedule", "raise", FALSE, FALSE)
    ELSE IF Has(resp, k_schedule) /\ IsList(resp.d[k_schedule])
    THEN IF activities_readable(resp.d[k_schedule], FALSE) /\ req.start_date
         THEN Pass1("schedule", "none", FALSE, FALSE)
         ELSE Pass1("schedule", "raise", FALSE, FALSE)
    ELSE IF Has(resp, k_days) /\ IsList(resp.d[k_days])
    THEN LET ds == resp.d[k_days]
             bound == dict_items(ds) # {}
         IN  IF /\ \A i \in dict_items(ds) :
                      activities_readable(Get(ds.l[i], k_activities, JList(<<>>)), FALSE)
                /\ bound => req.start_date
             THEN Pass1("days", "none", bound, FALSE)
             ELSE Pass1("days", "raise", bound, FALSE)
    ELSE IF \E k \in DOMAIN resp.d : IsDayKey(k)
    THEN LET day_keys == SortDayKeys({k \in DOMAIN resp.d : StartsWith(Lower(k), <<"d", "a", "y">>)})
             dicts == {i \in 1..Len(day_keys) : IsDict(resp.d[day_keys[i]])}
         IN  IF /\ \A i \in dicts :
                      activities_readable(Get(resp.d[day_keys[i]], k_activities, JList(<<>>)), TRUE)
                /\ dicts # {} => req.start_date
             THEN Pass1("day_keys", "none", dicts # {}, FALSE)
             ELSE Pass1("day_keys", "raise", dicts # {}, FALSE)
    ELSE IF Has(resp, k_activities) \/ Has(resp, k_itinerary) \/ Has(resp, k_plan)
    THEN LET activities_data ==
                 IF Has(resp, k_activities) /\ IsList(resp.d[k_activities]) THEN resp.d[k_activities]
                 ELSE IF Has(resp, k_itinerary) /\ IsList(resp.d[k_itinerary]) THEN resp.d[k_itinerary]
                 ELSE IF Has(resp, k_plan) /\ IsList(resp.d[k_plan]) THEN resp.d[k_plan]
                 ELSE JList(<<>>)
         IN  IF activities_readable(activities_data, TRUE) /\ req.start_date
             THEN Pass1("root_activities", "none", FALSE, TRUE)
             ELSE Pass1("root_activities", "raise", FALSE, TRUE)
    ELSE IF (Has(resp, k_activity) /\ Has(resp, k_time)) \/ (Has(resp, k_name) /\ Has(resp, k_start_time))
    THEN IF req.start_date THEN Pass1("single_activity", "none", FALSE, FALSE)
         ELSE Pass1("single_activity", "raise", FALSE, FALSE)
    ELSE Pass1("unrecognized", "coroutine", FALSE, FALSE)

\* days_data of the second pass (lines 774-804)
days_data(resp) ==
    IF Has(resp, k_days) /\ IsList(resp.d[k_days]) THEN resp.d[k_days].l
    ELSE IF \E k \in DOMAIN resp.d : IsDayKey(k)
    THEN LET day_keys == SortDayKeys({k \in DOMAIN resp.d : StartsWith(Lower(k), <<"d", "a", "y">>)})
         IN  SelectSeq([i \in 1..Len(day_keys) |-> resp.d[day_keys[i]]],
                       LAMBDA v : v.t \in {"dict", "list"})
    ELSE <<resp>>

\* The second pass (lines 759-1130), entered with a dict: the way it ends.
\* The first day entry that is not empty reads activities_data (line 823)
\* and day_num (line 843): when either local is unbound that is an
\* UnboundLocalError.  Were both bound, the days would be collected and
\* TravelItinerary(**itinerary) at line 1116 would be called without its
\* required duration_days: a ValidationError.
parse_pass2(resp, p1) ==
    IF ~Truthy(resp) THEN "empty_response"
    ELSE LET dd == days_data(resp)
             entered == \E i \in 1..Len(dd) : Truthy(dd[i])
         IN  IF ~entered THEN "no_daily_itineraries"
             ELSE IF ~p1.activities_data \/ ~p1.day_num THEN "UnboundLocalError"
             ELSE "ValidationError"

\* the ends of the second pass that are answered with
\* `return self._create_basic_itinerary(travel_request, [])`, not awaited:
\* lines 771, 1105, 1123 and 1130
pass2_fallbacks ==
    {"empty_response", "no_daily_itineraries", "UnboundLocalError", "ValidationError"}

\* ItineraryAgent._parse_itinerary_response: what the call gives back
parse_itinerary_response(resp, req) ==
    LET p1 == parse_pass1(resp, req)
    IN  IF p1.ret = "raise" THEN [kind |-> "raise", days |-> <<>>]
        ELSE IF p1.ret = "empty_list" THEN [kind |-> "list", days |-> <<>>]
        ELSE IF p1.ret = "coroutine" THEN unawaited_fallback(<<>>)
        ELSE IF parse_pass2(resp, p1) \in pass2_fallbacks
             THEN unawaited_fallback(<<>>)
             ELSE [kind |-> "raise", days |-> <<>>]

(* ------------------------ replies of the model ------------------------- *)
\* one raw activity as the prompt asks for it
RawActivity ==
    JDict(k_name :> JStr(<<"L">>) @@ k_start_time :> JStr(<<"9", ":", "0", "0">>)
          @@ k_end_time :> JStr(<<"1", "0", ":", "0", "0">>))

\* a raw activity that carries its hours in a `time` field
TimedActivity(v) == JDict(k_activity :> JStr(<<"L">>) @@ k_time :> v)

RawDay(n) == JDict(k_day :> JInt(n) @@ k_activities :> JList(<<RawActivity>>))

\* "2:00 PM", "3:30 PM" and the range string "2:00 PM - 3:30 PM"
s_2pm == <<"2", ":", "0", "0", " ", "P", "M">>
s_330pm == <<"3", ":", "3", "0", " ", "P", "M">>

\* an activity with an explicit range and a declared duration that differs
RangedActivity ==
    JDict(k_name :> JStr(<<"R">>) @@ k_start_time :> JStr(s_2pm)
          @@ k_end_time :> JStr(s_330pm) @@ k_duration_minutes :> JInt(30))

\* the same range given as one `time` string
TimeRangeActivity ==
    JDict(k_activity :> JStr(<<"R">>) @@ k_time :> JStr(s_2pm \o <<" ", "-", " ">> \o s_330pm)
          @@ k_duration_minutes :> JInt(30))

Triad(v) ==
    k_trip_name :> JStr(<<"T">>) @@ k_introduction :> JStr(<<"I">>) @@ k_daily_itinerary :> v

\* a raw activity without end time that declares its duration in one of
\* the fields read at lines 908-910
DurationActivity(field, v) ==
    JDict(k_name :> JStr(<<"D">>) @@ k_start_time :> JStr(<<"9", ":", "0", "0">>)
          @@ field :> v)

\* the text "about two hours"
s_about_two_hours ==
    <<"a", "b", "o", "u", "t", " ", "t", "w", "o", " ", "h", "o", "u", "r", "s">>

\* what chain.ainvoke hands back (line 219), one reply for each branch of
\* the dispatch and for each way a branch can end
Payloads ==
    {JNone, JStr(<<"x">>), JList(<<RawActivity>>), JDict(<<>>),
     JDict(Triad(JList(<<RawDay(1)>>))),
     JDict(Triad(JStr(<<"x">>))),
     JDict(Triad(JList(<<>>))),
     JDict(Triad(JList(<<RawDay(1)>>)) @@ k_days :> JList(<<RawDay(1)>>)),
     JDict(k_daily_schedule :> JList(<<JDict(k_time_slot :> JStr(<<"9", "-", "1">>))>>)),
     JDict(k_daily_schedule :> JList(<<JDict(k_time_slot :> JInt(9))>>)),
     JDict(k_schedule :> JList(<<RawActivity>>)),
     JDict(k_schedule :> JList(<<TimedActivity(JInt(9))>>)),
     JDict(k_days :> JList(<<RawDay(1), RawDay(2)>>)),
     JDict(k_days :> JList(<<RawDay(2), RawDay(1), RawDay(3)>>)),
     JDict(k_days :> JList(<<>>)),
     JDict(k_days :> JStr(<<"x">>)),
     JDict(k_day1 :> JDict(k_activities :> JList(<<RawActivity>>))
           @@ k_day2 :> JDict(k_activities :> JList(<<RawActivity>>))),
     JDict(<<"D", "a", "y", "3">> :> JStr(<<"x">>)),
     JDict(k_day :> JInt(1) @@ <<"d", "a", "y", "_", "i", "n", "t", "r", "o", "d", "u", "c", "t", "i", "o", "n">> :> JStr(<<"I">>)
           @@ k_activities :> JList(<<RawActivity>>)),
     JDict(k_activities :> JList(<<RawActivity, RawActivity>>)),
     JDict(k_itinerary :> JList(<<TimedActivity(JStr(<<"9", "-", "1">>))>>)),
     JDict(k_plan :> JList(<<RawActivity>>)),
     JDict(k_name :> JStr(<<"L">>) @@ k_start_time :> JStr(<<"9", ":", "0", "0">>)),
     JDict(<<"n", "o", "t", "e", "s">> :> JStr(<<"x">>)),
     JDict(k_activities :> JList(<<RangedActivity>>)),
     JDict(k_activities :>
              JList(<<DurationActivity(<<"d", "u", "r", "a", "t", "i", "o", "n">>,
                                       JStr(s_about_two_hours)),
                      DurationActivity(k_duration_minutes, JInt(1000))>>)),
     JDict(k_days :> JList(<<JDict(k_day :> JInt(1)
                                   @@ k_activities :> JList(<<TimeRangeActivity>>))>>))}

(* ------------------------- _generate_with_llm -------------------------- *)
\* lines 137-189 and the handler of line 267: where the call stands when it
\* first suspends or returns.  The debug print of line 144 reads .name of
\* the first candidate's 'poi'; pois_list (lines 147-181) holds only the
\* candidates that carry a 'poi' key.
generate_before_model(req, pois) ==
    LET first_poi_print_raises == pois # <<>> /\ pois[1].kind = "wrapdict"
        pois_list == SelectSeq(pois, LAMBDA c : c.kind \in {"wrapdict", "wrapobj"})
    IN  IF first_poi_print_raises
        THEN [pc |-> "generated", plans |-> unawaited_fallback(pois)]
        ELSE IF pois_list = <<>>
        THEN LET basic == create_basic_itinerary(req, pois)
             IN  IF basic.kind = "raise"
                 THEN [pc |-> "generated", plans |-> unawaited_fallback(pois)]
                 ELSE [pc |-> "generated", plans |-> basic]
        ELSE [pc |-> "awaiting_model", plans |-> [kind |-> "unset"]]

\* lines 227-265: the reply goes through _parse_itinerary_response; an
\* exception of the parse is answered at line 265
generate_after_model(resp, req, pois) ==
    LET parsed == parse_itinerary_response(resp, req)
    IN  IF parsed.kind = "raise" THEN unawaited_fallback(pois) ELSE parsed

(* ------------------------------- process ------------------------------- *)
\* TravelItinerary(...) with pydantic's check of daily_plans:
\* List[DailyItinerary]
TravelItinerary(destination, duration_days, plans) ==
    IF \A i \in 1..Len(plans) : plans[i].t = "DailyItinerary"
    THEN [kind |-> "TravelItinerary", destination |-> destination,
          duration_days |-> duration_days, daily_plans |-> plans]
    ELSE [kind |-> "raise", exc |-> "ValidationError"]

\* `daily_plans if isinstance(daily_plans, list) else [daily_plans]`; what
\* is not a list here is the coroutine object of an un-awaited call
as_list(plans) == IF plans.kind = "list" THEN plans.days ELSE <<[t |-> "coroutine"]>>

\* lines 1603-1631, after _generate_with_llm has returned plans
process_after_generate(req, pois, plans) ==
    LET plans1 == IF plans.kind = "list" /\ plans.days = <<>>
                  THEN unawaited_fallback(pois) ELSE plans
        first == TravelItinerary(req.destination, req.duration_days, as_list(plans1))
    IN  IF first.kind = "TravelItinerary" THEN first
        ELSE TravelItinerary(req.destination, req.duration_days, as_list(unawaited_fallback(pois)))

(* ------------------- inputs of the time functions ---------------------- *)
NoMinutes == [tag |-> "none", n |-> 0]
TSrc(kind, h, m, colon, marker, minutes) ==
    [kind |-> kind, h |-> h, m |-> m, colon |-> colon, marker |-> marker,
     minutes |-> minutes]

Str(s) == [tag |-> "str", s |-> s]
None == [tag |-> "none"]

\* characters of the free-form strings
Alphabet == {"1", "2", "9", ":", " ", "-", "A", "P", "M", "m", "x"}
FreeStrings == UNION {[1..n -> Alphabet] : n \in 0..MaxStrLen}

\* numbers "of any magnitude" used to build "h", "h:m", "h:m PM", ...
Numbers == (0..MaxNum) \cup {59, 60, 61, 99, 100, 930, 1330}
Markers == {<<>>, <<"A", "M">>, <<"P", "M">>, <<" ", "A", "M">>, <<" ", "P", "M">>,
            <<"a", "m">>, <<"p", "m">>}
BuiltString(h, m, colon, marker) ==
    NumStr(h) \o (IF colon THEN <<":">> \o Pad2(m) ELSE <<>>) \o marker

\* minutes arguments of _add_minutes: ints, floats (n is int(x), x has a
\* fractional part), numeric strings, None, other text, NaN, infinity
MinutesArgs ==
    {[tag |-> "int", n |-> n] :
        n \in ((0 - MaxAddMinutes)..MaxAddMinutes) \cup {20, 60, 1439, 1440, 1441, 2000, -1440, -1500}}
    \cup {[tag |-> "float", n |-> n] : n \in {-2, 0, 2, 90}}
    \cup {[tag |-> "numstr", n |-> 15]}
    \cup {[tag |-> x, n |-> 0] : x \in {"none", "text", "nan", "inf"}}

CanonicalTimes == {Time(h, m) : h \in 0..23, m \in 0..59}

(* --------------------------- TravelSelections -------------------------- *)
\* PointOfInterest.id values; the methods compare POIs by id only
IdNames == <<"a", "b", "c", "d", "e">>
PoiIds == {IdNames[i] : i \in 1..MaxIds}

\* the three POI lists, as lists of ids
PoiLists(pois, restaurants, accommodations) ==
    [selected_pois |-> pois, saved_restaurants |-> restaurants,
     saved_accommodations |-> accommodations]

EmptyLists == PoiLists(<<>>, <<>>, <<>>)

\* no selections file on disk
NoFile == [exists |-> FALSE, lists |-> EmptyLists]

\* save(): the file holds the lists of memory
saved(lists) == [exists |-> TRUE, lists |-> lists]

\* any(p.id == poi_id for p in list)
any_id(list, poi_id) == \E i \in 1..Len(list) : list[i] = poi_id

\* [p for p in list if p.id != poi_id]
without_id(list, poi_id) == SelectSeq(list, LAMBDA x : x # poi_id)

NoCall == [op |-> "none", poi_id |-> "none", before |-> EmptyLists, ret |-> "none"]

\* TravelSelections(user_id, data_dir) with no selections file: load()
\* returns at once
SelIdle ==
    /\ selections = EmptyLists
    /\ selections_file = NoFile
    /\ sel_call = NoCall

(* ---------------------- the time functions at work --------------------- *)
ProcIdle ==
    /\ pc = "idle"
    /\ travel_request = [destination |-> Destination, duration_days |-> 1,
                         origin |-> NoOrigin, start_date |-> FALSE]
    /\ selected_pois = <<>>
    /\ response = [t |-> "unset"]
    /\ daily_plans = [kind |-> "unset"]
    /\ result = [kind |-> "unset"]

InitTime ==
    /\ ProcIdle
    /\ SelIdle
    /\ flow = [at |-> "idle"]
    /\ tout = Pending
    /\ \/ \E t \in CanonicalTimes :
            /\ tsrc = TSrc("canon", t.hour, t.minute, TRUE, <<>>, NoMinutes)
            /\ tin = t
       \/ \E h \in Numbers, m \in Numbers, marker \in Markers :
            /\ tsrc = TSrc("built", h, m, TRUE, marker, NoMinutes)
            /\ tin = Str(BuiltString(h, m, TRUE, marker))
       \/ \E h \in Numbers, marker \in Markers :
            /\ tsrc = TSrc("built", h, 0, FALSE, marker, NoMinutes)
            /\ tin = Str(BuiltString(h, 0, FALSE, marker))
       \/ \E s \in FreeStrings :
            /\ tsrc = TSrc("free", 0, 0, FALSE, <<>>, NoMinutes)
            /\ tin = Str(s)
       \/ /\ tsrc = TSrc("free", 0, 0, FALSE, <<>>, NoMinutes)
          /\ tin = None
       \/ \E t \in CanonicalTimes, mins \in MinutesArgs :
            /\ tsrc = TSrc("add", t.hour, t.minute, FALSE, <<>>, mins)
            /\ tin = t
       \/ \E req \in [destination : {Destination}, duration_days : 1..MaxDays,
                    origin : {NoOrigin, Destination, "New York", NoOriginAttr},
                    start_date : {FALSE}] : \E day_num \in 1..req.duration_days :
            /\ tsrc = TSrc("start", 0, 0, FALSE, <<>>, NoMinutes)
            /\ tin = [tag |-> "start", req |-> req, day_num |-> day_num]

\* start_time.strftime("%H:%M"), as the sequencer does before it parses the
\* string back (lines 873-881)
FormatTime ==
    /\ tsrc.kind = "canon"
    /\ tout = Pending
    /\ tin' = Str(strftime(tin))
    /\ tsrc' = [tsrc EXCEPT !.kind = "formatted"]
    /\ UNCHANGED <<tout, procVars, selVars, flow>>

ParseTimeCall ==
    /\ tsrc.kind \in {"canon", "formatted", "built", "free"}
    /\ tout = Pending
    /\ tout' = parse_time(tin)
    /\ UNCHANGED <<tsrc, tin, procVars, selVars, flow>>

AddMinutesCall ==
    /\ tsrc.kind = "add"
    /\ tout = Pending
    /\ tout' = add_minutes(tin, tsrc.minutes)
    /\ UNCHANGED <<tsrc, tin, procVars, selVars, flow>>

OptimalStartTimeCall ==
    /\ tsrc.kind = "start"
    /\ tout = Pending
    /\ tout' = calculate_optimal_start_time(tin.req, tin.day_num)
    /\ UNCHANGED <<tsrc, tin, procVars, selVars, flow>>

NextTime == FormatTime \/ ParseTimeCall \/ AddMinutesCall \/ OptimalStartTimeCall

SpecTime == InitTime /\ [][NextTime]_vars

(* --------------------------- process at work --------------------------- *)
TimeIdle ==
    /\ tsrc = TSrc("free", 0, 0, FALSE, <<>>, NoMinutes)
    /\ tin = None
    /\ tout = Pending

\* process(travel_request, selected_pois) has just been called
Init ==
    /\ TimeIdle
    /\ SelIdle
    /\ flow = [at |-> "idle"]
    /\ pc = "start"
    /\ travel_request \in Requests
    /\ selected_pois \in CandidateLists
    /\ response = [t |-> "unset"]
    /\ daily_plans = [kind |-> "unset"]
    /\ result = [kind |-> "unset"]

\* _generate_with_llm up to its first return or to the model call
GenerateWithLLM ==
    /\ pc = "start"
    /\ LET g == generate_before_model(travel_request, selected_pois)
       IN  pc' = g.pc /\ daily_plans' = g.plans
    /\ UNCHANGED <<travel_request, selected_pois, response, result, timeVars, selVars, flow>>

\* chain.ainvoke returns a payload; _generate_with_llm runs to its return
ModelReplies ==
    /\ pc = "awaiting_model"
    /\ \E payload \in Payloads :
         /\ response' = payload
         /\ daily_plans' = generate_after_model(payload, travel_request, selected_pois)
    /\ pc' = "generated"
    /\ UNCHANGED <<travel_request, selected_pois, result, timeVars, selVars, flow>>

\* chain.ainvoke raises; the handler of line 267 answers
ModelFails ==
    /\ pc = "awaiting_model"
    /\ response' = [t |-> "exception"]
    /\ daily_plans' = unawaited_fallback(selected_pois)
    /\ pc' = "generated"
    /\ UNCHANGED <<travel_request, selected_pois, result, timeVars, selVars, flow>>

\* the rest of process, from the value _generate_with_llm returned
ProcessReturns ==
    /\ pc = "generated"
    /\ result' = process_after_generate(travel_request, selected_pois, daily_plans)
    /\ pc' = "done"
    /\ UNCHANGED <<travel_request, selected_pois, response, daily_plans, timeVars, selVars, flow>>

Next == GenerateWithLLM \/ ModelReplies \/ ModelFails \/ ProcessReturns

Spec == Init /\ [][Next]_vars

(* --------------------------- claims on process ------------------------- *)
\* C1: process never lets an exception escape: whatever the request, the
\* candidates, the model's payload or the model's failure, a finished call
\* has returned a TravelItinerary.
ProcessNeverRaises ==
    pc = "done" => result.kind = "TravelItinerary"

\* C2: the core never returns an empty list of day records: neither what
\* _generate_with_llm hands to process (the fallback's or the payload
\* parser's list) nor an itinerary process returns has no day record.
NeverAnEmptyListOfDays ==
    /\ pc \in {"generated", "done"} => ~(daily_plans.kind = "list" /\ daily_plans.days = <<>>)
    /\ (pc = "done" /\ result.kind = "TravelItinerary") => result.daily_plans # <<>>

\* exactly N day records, the record at position i carrying day index i
CoversDays(plans, N) ==
    /\ Len(plans) = N
    /\ \A i \in 1..N : plans[i].day = i

\* C3: for duration_days = N the returned list has exactly N day records
\* with indices 1..N in order, whether the records come from a model
\* payload or from the fallback.
ExactlyNDaysInOrder ==
    pc = "done" =>
        /\ result.kind = "TravelItinerary"
        /\ CoversDays(result.daily_plans, travel_request.duration_days)

\* C4: with an empty candidate list the result for duration_days = N has N
\* day records, each holding exactly one activity, named "Free Day", from
\* 09:00 to 17:00, described as "Free time to explore at your own pace".
EmptyCandidatesGiveFreeDays ==
    (pc = "done" /\ selected_pois = <<>>) =>
        /\ result.kind = "TravelItinerary"
        /\ CoversDays(result.daily_plans, travel_request.duration_days)
        /\ \A i \in 1..Len(result.daily_plans) :
             LET acts == result.daily_plans[i].activities
             IN  /\ Len(acts) = 1
                 /\ acts[1].name = "Free Day"
                 /\ acts[1].start_time = <<"0", "9", ":", "0", "0">>
                 /\ acts[1].end_time = <<"1", "7", ":", "0", "0">>
                 /\ acts[1].description = "Free time to explore at your own pace"

\* a call with no candidates and three days has returned
FreeDaysReturned ==
    /\ pc = "done"
    /\ selected_pois = <<>>
    /\ travel_request.duration_days = MaxDays
    /\ result.kind = "TravelItinerary"
    /\ Len(result.daily_plans) = MaxDays

\* minute of the day of an "HH:MM" field of an activity
ClockMinute(s) == MinuteOfDay(parse_time(Str(s)))

\* C5: in every returned day record the activities are in schedule order
\* without overlap: each activity starts no earlier than the one before it
\* starts and no earlier than the one before it ends.
ActivitiesOrderedWithoutOverlap ==
    (pc = "done" /\ result.kind = "TravelItinerary") =>
        \A d \in 1..Len(result.daily_plans) :
            LET acts == result.daily_plans[d].activities
            IN  \A i \in 1..(Len(acts) - 1) :
                    /\ ClockMinute(acts[i + 1].start_time) >= ClockMinute(acts[i].start_time)
                    /\ ClockMinute(acts[i + 1].start_time) >= ClockMinute(acts[i].end_time)

\* TravelSelections.add_poi: the lists after the call and whether save()
\* was called
\* an add_poi that appends without looking for the id
add_poi_unchecked(lists, poi_id, category) ==
    [lists |->
        PoiLists(Append(lists.selected_pois, poi_id),
                 IF category = "restaurant"
                 THEN Append(lists.saved_restaurants, poi_id)
                 ELSE lists.saved_restaurants,
                 IF category = "accommodation"
                 THEN Append(lists.saved_accommodations, poi_id)
                 ELSE lists.saved_accommodations),
     saves |-> TRUE, ret |-> "None"]

\* TravelSelections.add_poi: the lists after the call and whether save()
\* was called
add_poi(lists, poi_id, category) ==
    IF ~any_id(lists.selected_pois, poi_id)
    THEN [lists |->
            PoiLists(Append(lists.selected_pois, poi_id),
                     IF category = "restaurant" /\ ~any_id(lists.saved_restaurants, poi_id)
                     THEN Append(lists.saved_restaurants, poi_id)
                     ELSE lists.saved_restaurants,
                     IF /\ ~(category = "restaurant" /\ ~any_id(lists.saved_restaurants, poi_id))
                        /\ category = "accommodation"
                        /\ ~any_id(lists.saved_accommodations, poi_id)
                     THEN Append(lists.saved_accommodations, poi_id)
                     ELSE lists.saved_accommodations),
          saves |-> TRUE, ret |-> "None"]
    ELSE [lists |-> lists, saves |-> FALSE, ret |-> "None"]

\* TravelSelections.remove_poi: the lists after the call, whether save()
\* was called, and the returned flag `removed`
remove_poi(lists, poi_id) ==
    LET in_restaurants == any_id(lists.saved_restaurants, poi_id)
        in_accommodations == any_id(lists.saved_accommodations, poi_id)
        removed == in_restaurants \/ in_accommodations
    IN  [lists |->
            PoiLists(without_id(lists.selected_pois, poi_id),
                     IF in_restaurants THEN without_id(lists.saved_restaurants, poi_id)
                     ELSE lists.saved_restaurants,
                     IF in_accommodations THEN without_id(lists.saved_accommodations, poi_id)
                     ELSE lists.saved_accommodations),
         saves |-> removed,
         ret |-> IF removed THEN "True" ELSE "False"]

\* TravelSelections.clear
clear(lists) == [lists |-> EmptyLists, saves |-> TRUE, ret |-> "None"]

\* the selections file after a method: rewritten when it called save()
file_after(out) == IF out.saves THEN saved(out.lists) ELSE selections_file

\* the record of a call: the method, its argument, the lists it found and
\* what it returned
call_record(op, poi_id, out) ==
    [op |-> op, poi_id |-> poi_id, before |-> selections, ret |-> out.ret]

\* the lists load() finds at construction: no file, or a file written by
\* an earlier session, in which a restaurant or an accommodation need not
\* be among the selected POIs
LoadedLists == {PoiLists(p, r, a) : p, r, a \in {<<>>, <<IdNames[1]>>}}

\* TravelSelections(user_id, data_dir) has been constructed
InitSel ==
    /\ TimeIdle
    /\ ProcIdle
    /\ flow = [at |-> "idle"]
    /\ selections \in LoadedLists
    /\ selections_file = IF selections = EmptyLists THEN NoFile ELSE saved(selections)
    /\ sel_call = NoCall

AddPoi ==
    /\ \E poi_id \in PoiIds,
          category \in {"None", "restaurant", "accommodation", "attraction"} :
         LET out == add_poi(selections, poi_id, category)
         IN  /\ selections' = out.lists
             /\ selections_file' = file_after(out)
             /\ sel_call' = call_record("add_poi", poi_id, out)
    /\ UNCHANGED <<timeVars, procVars, flow>>

RemovePoi ==
    /\ \E poi_id \in PoiIds :
         LET out == remove_poi(selections, poi_id)
         IN  /\ selections' = out.lists
             /\ selections_file' = file_after(out)
             /\ sel_call' = call_record("remove_poi", poi_id, out)
    /\ UNCHANGED <<timeVars, procVars, flow>>

Clear ==
    /\ LET out == clear(selections)
       IN  /\ selections' = out.lists
           /\ selections_file' = file_after(out)
           /\ sel_call' = call_record("clear", "none", out)
    /\ UNCHANGED <<timeVars, procVars, flow>>

\* set_preferences, set_budget, set_trip_dates and set_itinerary: the POI
\* lists stay and save() is called
SetPreferences ==
    /\ selections' = selections
    /\ selections_file' = saved(selections)
    /\ sel_call' = call_record("set_preferences", "none", [ret |-> "None"])
    /\ UNCHANGED <<timeVars, procVars, flow>>

NextSel == AddPoi \/ RemovePoi \/ Clear \/ SetPreferences

SpecSel == InitSel /\ [][NextSel]_vars

(* ----------------------- claims on TravelSelections -------------------- *)
\* C15: remove_poi(poi_id) returns True exactly when a POI with that id
\* was in the selections before the call and is absent after it, and False
\* exactly when no such POI was there.
RemoveReportsPresence ==
    sel_call.op = "remove_poi" =>
        LET Present(lists) == \/ any_id(lists.selected_pois, sel_call.poi_id)
                              \/ any_id(lists.saved_restaurants, sel_call.poi_id)
                              \/ any_id(lists.saved_accommodations, sel_call.poi_id)
        IN  /\ sel_call.ret = "True" <=> (Present(sel_call.before) /\ ~Present(selections))
            /\ sel_call.ret = "False" <=> ~Present(sel_call.before)

\* C27: after any sequence of add_poi, remove_poi and clear calls on a
\* TravelSelections that started without duplicates, none of the three
\* lists holds an id twice, and add_poi with an id that is already selected
\* leaves the three lists as they were.
NoDuplicateIds ==
    LET distinct(list) == \A i, j \in 1..Len(list) : list[i] = list[j] => i = j
    IN  /\ distinct(selections.selected_pois)
        /\ distinct(selections.saved_restaurants)
        /\ distinct(selections.saved_accommodations)
        /\ (/\ sel_call.op = "add_poi"
            /\ any_id(sel_call.before.selected_pois, sel_call.poi_id))
              => selections = sel_call.before

\* add_poi has been called with an id that was already selected
AddedAgain ==
    /\ sel_call.op = "add_poi"
    /\ any_id(sel_call.before.selected_pois, sel_call.poi_id)
    /\ Len(selections.selected_pois) >= 2
    /\ selections.saved_restaurants # <<>>

\* C30: after each mutating operation returns, the selections file holds
\* the POI lists of memory whenever the operation changed them, so that a
\* fresh load() would restore the current selected_pois.
EveryChangeIsSaved ==
    (sel_call.op # "none" /\ selections # sel_call.before) =>
        /\ selections_file.exists
        /\ selections_file.lists = selections

(* ------------------------- claims on the time parser ------------------- *)
\* C6: parsing the "HH:MM" string of a canonical time, or the time object
\* itself, gives that time back.
ParseTimeIdempotentOnCanonical ==
    (tsrc.kind \in {"canon", "formatted"} /\ tout # Pending)
        => tout = Time(tsrc.h, tsrc.m)

ParseTimeRoundTripDone ==
    /\ tsrc.kind = "formatted" /\ tsrc.h = 13 /\ tsrc.m = 5
    /\ tin = Str(<<"1", "3", ":", "0", "5">>)
    /\ tout = Time(13, 5)

\* C7: _parse_time always returns a time with hour in 0..23 and minute in
\* 0..59, and a string built from out-of-range numbers is clamped to the
\* nearest bound instead of being rejected: "h:m" gives min(23,h):min(59,m)
\* and a bare "h" gives min(23,h):00.
ParseTimeTotalAndClamped ==
    (tsrc.kind \in {"canon", "formatted", "built", "free"} /\ tout # Pending)
        => /\ tout.tag = "time"
           /\ tout.hour \in 0..23
           /\ tout.minute \in 0..59
           /\ (tsrc.kind = "built" /\ tsrc.marker = <<>>)
                => tout = Time(Min(23, tsrc.h), IF tsrc.colon THEN Min(59, tsrc.m) ELSE 0)

ParseTimeClampedBoth ==
    /\ tsrc.kind = "built" /\ tsrc.h = 99 /\ tsrc.m = 60 /\ tsrc.colon
    /\ tsrc.marker = <<>>
    /\ tout = Time(23, 59)

HasDigit(s) == \E i \in 1..Len(s) : s[i] \in Digit

\* C8: None, the empty string and every string without a digit parse to the
\* 09:00 default.
ParseTimeDefaultsWithoutDigit ==
    (tsrc.kind \in {"built", "free"} /\ tout # Pending
       /\ (tin.tag = "none" \/ (tin.tag = "str" /\ ~HasDigit(tin.s))))
        => tout = DEFAULT_TIME

(* ------------------- claims on digit blobs without colon --------------- *)
\* C16: without AM/PM marker and without colon, _parse_time reads a blob
\* of 3 or 4 digits as HHMM ("930" is 09:30, "1330" is 13:30) and a blob of
\* 1 or 2 digits as a bare hour with minute 0.
DigitBlobReadAsHHMM ==
    (tsrc.kind = "built" /\ ~tsrc.colon /\ tsrc.marker = <<>> /\ tout # Pending) =>
        IF tsrc.h >= 100
        THEN tout = Time(tsrc.h \div 100, tsrc.h % 100)
        ELSE tout = Time(Min(23, tsrc.h), 0)

(* ------------------- claims on the day's start time -------------------- *)
\* C20: _calculate_optimal_start_time(request, d) is 11:00 when d = 1 and
\* the origin differs from the destination, 08:00 when d is the final day,
\* not day 1, and the origin differs from the destination, and 09:00 in
\* every other case: every day of a request without origin, or with origin
\* equal to destination, starts at 09:00.
StartTimeFollowsOrigin ==
    (tsrc.kind = "start" /\ tout # Pending) =>
        LET elsewhere == tin.req.origin \notin {NoOrigin, NoOriginAttr, tin.req.destination}
        IN  tout = IF tin.day_num = 1 /\ elsewhere THEN Time(11, 0)
                   ELSE IF /\ tin.day_num = tin.req.duration_days
                           /\ tin.day_num # 1
                           /\ elsewhere
                   THEN Time(8, 0)
                   ELSE Time(9, 0)

AddMinutesCoercesToZero ==
    (tsrc.kind = "add" /\ tout # Pending
       /\ (tsrc.minutes.tag # "int" \/ tsrc.minutes.n < 0))
        => tout = tin

\* C10 amended: _add_minutes never raises; None, non-numeric text and NaN
\* count as 0; a float is truncated towards zero, a numeric string is read
\* and a negative integer is added as it is, so the result is
\* (minute of day + int(minutes)) mod 1440; an infinite float gives 12:00.
AddMinutesConvertsWithInt ==
    (tsrc.kind = "add" /\ tout # Pending)
        => /\ tout.tag = "time"
           /\ tsrc.minutes.tag \in {"none", "text", "nan"} => tout = tin
           /\ tsrc.minutes.tag \in {"int", "float", "numstr"}
                => MinuteOfDay(tout) = (MinuteOfDay(tin) + tsrc.minutes.n) % 1440
           /\ tsrc.minutes.tag = "inf" => tout = Time(12, 0)

AddMinutesWentBackwards ==
    /\ tsrc.kind = "add" /\ tin = Time(0, 2)
    /\ tsrc.minutes = [tag |-> "int", n |-> -5]
    /\ tout = Time(23, 57)
(* ----------------------- claims on the payload shapes ------------------ *)
\* the model's reply has all of trip_name, introduction and daily_itinerary
IsTriad(resp) ==
    /\ resp.t = "dict"
    /\ Has(resp, k_trip_name) /\ Has(resp, k_introduction) /\ Has(resp, k_daily_itinerary)

\* C11: a reply with the three keys trip_name, introduction and
\* daily_itinerary is normalized by the triad rule, one day per element of
\* daily_itinerary, also when it carries a `days` key: what
\* _generate_with_llm returns is a list with as many day records as
\* daily_itinerary has elements.
TriadGivesOneDayPerElement ==
    (/\ pc \in {"generated", "done"}
     /\ IsTriad(response)
     /\ IsList(response.d[k_daily_itinerary])) =>
        /\ daily_plans.kind = "list"
        /\ Len(daily_plans.days) = Len(response.d[k_daily_itinerary].l)

\* C12: for a request whose origin is set and differs from the destination
\* and a recognized multi-day reply (a `days` list of at least two day
\* dicts, or day1/day2 keys), the returned schedule has "Arrive in
\* {destination}" as the first activity of day 1 and "Return to {origin}"
\* as the last activity of the final day.
ArrivalAndReturnInjected ==
    (/\ pc = "done"
     /\ travel_request.origin # NoOrigin
     /\ travel_request.origin # travel_request.destination
     /\ response.t = "dict"
     /\ ~IsTriad(response)
     /\ \/ /\ Has(response, k_days) /\ IsList(response.d[k_days])
           /\ Len(response.d[k_days].l) >= 2
           /\ \A i \in 1..Len(response.d[k_days].l) : IsDict(response.d[k_days].l[i])
        \/ /\ Has(response, k_day1) /\ Has(response, k_day2)
           /\ IsDict(response.d[k_day1]) /\ IsDict(response.d[k_day2])) =>
        /\ result.kind = "TravelItinerary"
        /\ result.daily_plans # <<>>
        /\ LET first == result.daily_plans[1].activities
               last == result.daily_plans[Len(result.daily_plans)].activities
           IN  /\ first # <<>> /\ last # <<>>
               /\ first[1].name = "Arrive in " \o travel_request.destination
               /\ last[Len(last)].name = "Return to " \o travel_request.origin

\* the raw activities a reply carries, whatever its shape
ReplyActivities(resp) ==
    IF resp.t # "dict" THEN {}
    ELSE (IF Has(resp, k_activities) /\ IsList(resp.d[k_activities])
          THEN {resp.d[k_activities].l[i] : i \in 1..Len(resp.d[k_activities].l)} ELSE {})
         \cup (IF Has(resp, k_days) /\ IsList(resp.d[k_days])
               THEN UNION {LET day == resp.d[k_days].l[i]
                               acts == IF IsDict(day) THEN Get(day, k_activities, JList(<<>>))
                                       ELSE JList(<<>>)
                           IN  IF IsList(acts) THEN {acts.l[j] : j \in 1..Len(acts.l)} ELSE {} :
                           i \in 1..Len(resp.d[k_days].l)}
               ELSE {})

\* C13: an explicit time range on a raw activity overrides its declared
\* duration: a reply whose activity is given as 2:00 PM to 3:30 PM (by
\* start_time and end_time, or by one `time` range string) with
\* duration_minutes 30 comes back with an activity from 14:00 to 15:30.
ExplicitRangeWins ==
    (/\ pc = "done"
     /\ ReplyActivities(response) \cap {RangedActivity, TimeRangeActivity} # {}) =>
        /\ result.kind = "TravelItinerary"
        /\ \E d \in 1..Len(result.daily_plans) :
             \E i \in 1..Len(result.daily_plans[d].activities) :
                LET a == result.daily_plans[d].activities[i]
                IN  /\ a.start_time = <<"1", "4", ":", "0", "0">>
                    /\ a.end_time = <<"1", "5", ":", "3", "0">>

\* C17: a reply whose only day-prefixed keys carry no numeral (`day`,
\* `day_introduction`) and that has
\* a top-level `activities`, `itinerary` or `plan` list is normalized by the
\* root-activities rule: one day-1 record holding those activities.
NumeralFreeDayKeysUseRootRule ==
    LET listed(k) == Has(response, k) /\ IsList(response.d[k])
        root == IF listed(k_activities) THEN response.d[k_activities].l
                ELSE IF listed(k_itinerary) THEN response.d[k_itinerary].l
                ELSE IF listed(k_plan) THEN response.d[k_plan].l
                ELSE <<>>
    IN  (/\ pc \in {"generated", "done"}
         /\ response.t = "dict"
         /\ ~IsTriad(response)
         /\ ~Has(response, k_daily_schedule) /\ ~Has(response, k_schedule)
         /\ ~Has(response, k_days)
         /\ \E k \in DOMAIN response.d : IsDayKey(k)
         /\ \A k \in DOMAIN response.d : IsDayKey(k) => ~HasDigit(k)
         /\ root # <<>>) =>
            /\ daily_plans.kind = "list"
            /\ Len(daily_plans.days) = 1
            /\ daily_plans.days[1].day = 1
            /\ Len(daily_plans.days[1].activities) = Len(root)

\* C18: a reply that is itself a list is normalized into a single day-1
\* record in which every dict element of the list is one activity, in list
\* order; _parse_itinerary_response does not raise on it and the list is not
\* given up for the fallback.
ListReplyBecomesOneDay ==
    (/\ pc \in {"generated", "done"}
     /\ IsList(response)) =>
        /\ parse_itinerary_response(response, travel_request).kind = "list"
        /\ daily_plans.kind = "list"
        /\ Len(daily_plans.days) = 1
        /\ daily_plans.days[1].day = 1
        /\ Len(daily_plans.days[1].activities) = Cardinality(dict_items(response))

\* C19: when the reply matches no known shape (a dict with none of the
\* keys the shapes are recognized by), or its normalization yields no day
\* (a `days` list with no element), the schedule is the fallback synthesized from the request and
\* the caller's candidate list.
UnknownShapeFallsBackOnCandidates ==
    (/\ pc \in {"generated", "done"}
     /\ response.t = "dict"
     /\ ~IsTriad(response)
     /\ ~Has(response, k_daily_schedule) /\ ~Has(response, k_schedule)
     /\ \/ /\ \A k \in {k_days, k_activities, k_itinerary, k_plan, k_activity, k_name} :
                ~Has(response, k)
           /\ \A k \in DOMAIN response.d : ~IsDayKey(k)
        \/ /\ Has(response, k_days) /\ IsList(response.d[k_days])
           /\ response.d[k_days].l = <<>>) =>
        /\ daily_plans.kind = "list"
        /\ daily_plans = create_basic_itinerary(travel_request, selected_pois)

(* ------------------------ claims on the fallback ----------------------- *)
\* the names of the candidates a returned day holds, in order: its
\* activities without the travel legs and lunch breaks
PlacedNames(day) ==
    LET own == SelectSeq(day.activities,
                         LAMBDA a : a.name \notin {"Travel to next location", "Lunch Break", "Free Day"})
    IN  [i \in 1..Len(own) |-> own[i].name]

\* process has returned a schedule built from a non-empty candidate list
FallbackReturned ==
    /\ pc = "done"
    /\ result.kind = "TravelItinerary"
    /\ selected_pois # <<>>

NoLegWithoutDistinctOrigin ==
    travel_request.origin \in {NoOrigin, travel_request.destination} =>
        LET legs == {"Arrive in " \o travel_request.destination,
                     "Return to " \o travel_request.origin}
            free(plans) == \A d \in 1..Len(plans) :
                             \A i \in 1..Len(plans[d].activities) :
                                plans[d].activities[i].name \notin legs
        IN  /\ (pc \in {"generated", "done"} /\ daily_plans.kind = "list")
                  => free(daily_plans.days)
            /\ (pc = "done" /\ result.kind = "TravelItinerary")
                  => free(result.daily_plans)

\* a schedule has come back for a request whose origin is its destination
ScheduleForOriginAtDestination ==
    /\ pc = "done"
    /\ result.kind = "TravelItinerary"
    /\ travel_request.origin = travel_request.destination
    /\ travel_request.duration_days >= 2
    /\ selected_pois # <<>>

(* ---------------------- claims on the declared duration ---------------- *)
\* C22: the duration resolved for a raw activity from its duration fields
\* lies in [5, 720] minutes: a reply whose activities declare the duration
\* text "about two hours" and duration_minutes 1000 comes back with an
\* activity of 60 minutes (the default) and one of 720 minutes (clamped),
\* and every activity of that schedule lasts between 5 and 720 minutes.
DurationResolvedWithinBounds ==
    (/\ pc = "done"
     /\ \E a \in ReplyActivities(response) :
           a \in {DurationActivity(<<"d", "u", "r", "a", "t", "i", "o", "n">>,
                                   JStr(s_about_two_hours)),
                  DurationActivity(k_duration_minutes, JInt(1000))}) =>
        /\ result.kind = "TravelItinerary"
        /\ LET lengths == UNION {{ClockMinute(result.daily_plans[d].activities[i].end_time)
                                    - ClockMinute(result.daily_plans[d].activities[i].start_time) :
                                  i \in 1..Len(result.daily_plans[d].activities)} :
                                d \in 1..Len(result.daily_plans)}
           IN  /\ 60 \in lengths /\ 720 \in lengths
               /\ \A n \in lengths : 5 <= n /\ n <= 720

(* ----------------------- claims on the lunch break --------------------- *)
\* C23: every "Lunch Break" of a returned fallback schedule starts at 12:00
\* and ends at 13:00, and the activity after it in that day starts at 13:00
\* or later.
LunchFromNoonToOne ==
    FallbackReturned =>
        \A d \in 1..Len(result.daily_plans) :
            LET acts == result.daily_plans[d].activities
            IN  \A i \in 1..Len(acts) :
                    acts[i].name = "Lunch Break" =>
                        /\ acts[i].start_time = <<"1", "2", ":", "0", "0">>
                        /\ acts[i].end_time = <<"1", "3", ":", "0", "0">>
                        /\ i < Len(acts) => ClockMinute(acts[i + 1].start_time) >= 13 * 60

\* C24: a day of a returned fallback schedule holds at most one "Lunch
\* Break", and a "Lunch Break" comes only after a candidate's activity.
AtMostOneLunchPerDay ==
    FallbackReturned =>
        \A d \in 1..Len(result.daily_plans) :
            LET acts == result.daily_plans[d].activities
                lunches == {i \in 1..Len(acts) : acts[i].name = "Lunch Break"}
            IN  /\ Cardinality(lunches) <= 1
                /\ \A i \in lunches : i > 1

(* ------------------- claims on failures of single items ---------------- *)
\* C25: a candidate that cannot be processed (duration_minutes is None) is
\* skipped alone: for a list of plain candidates of which some have no
\* duration, process returns a schedule that holds an activity for every
\* other candidate.
FailingCandidateSkippedAlone ==
    (/\ pc = "done"
     /\ \A i \in 1..Len(selected_pois) : selected_pois[i].kind = "dict"
     /\ \E i \in 1..Len(selected_pois) : selected_pois[i].dur.tag = "none"
     /\ \E i \in 1..Len(selected_pois) : selected_pois[i].dur.tag = "int") =>
        /\ result.kind = "TravelItinerary"
        /\ \A i \in 1..Len(selected_pois) :
              selected_pois[i].dur.tag = "int" =>
                  \E d \in 1..Len(result.daily_plans) :
                      \E j \in 1..Len(result.daily_plans[d].activities) :
                          result.daily_plans[d].activities[j].name = selected_pois[i].name

(* --------------- claims on what the fallback does to its input --------- *)
\* C28: the fallback synthesizer neither drops nor duplicates candidates:
\* for a list of candidates it accepts (plain records, bare or under a
\* 'poi' key, with an integer duration) and every duration_days, each
\* candidate has exactly one activity of its own name in the schedule, the
\* activities of the candidates follow the order of the input list through
\* the days, and no other activity carries a candidate's name.  This holds
\* for what _create_basic_itinerary computes and for what process returns.
FallbackKeepsEveryCandidateOnce ==
    LET names == {selected_pois[i].name : i \in 1..Len(selected_pois)}
        spots(plans, n) == UNION {{<<d, j>> : j \in {x \in 1..Len(plans[d].activities) :
                                                        plans[d].activities[x].name = n}} :
                                  d \in 1..Len(plans)}
        before(p, q) == p[1] < q[1] \/ (p[1] = q[1] /\ p[2] < q[2])
        kept(plans) ==
            /\ Len(plans) = travel_request.duration_days
            /\ \A i \in 1..Len(selected_pois) :
                  Cardinality(spots(plans, selected_pois[i].name)) = 1
            /\ \A i, k \in 1..Len(selected_pois) :
                  i < k => \A p \in spots(plans, selected_pois[i].name) :
                             \A q \in spots(plans, selected_pois[k].name) : before(p, q)
            /\ \A d \in 1..Len(plans) :
                  Len(PlacedNames(plans[d])) =
                      Cardinality({j \in 1..Len(plans[d].activities) :
                                     plans[d].activities[j].name \in names})
        accepted == \A i \in 1..Len(selected_pois) :
                      /\ selected_pois[i].kind \in {"dict", "wrapdict"}
                      /\ selected_pois[i].dur.tag = "int"
    IN  /\ accepted =>
              LET basic == create_basic_itinerary(travel_request, selected_pois)
              IN  basic.kind = "list" /\ kept(basic.days)
        /\ (FallbackReturned /\ accepted) => kept(result.daily_plans)

\* five candidates over two days have come back split 2/3
FiveOverTwoReturned ==
    /\ FallbackReturned
    /\ Len(selected_pois) = 5
    /\ travel_request.duration_days = 2
    /\ PlacedNames(result.daily_plans[1]) = <<"P1", "P2">>
    /\ PlacedNames(result.daily_plans[2]) = <<"P3", "P4", "P5">>

-----------------------------------------------------------------------------
\* workflow.py: the compiled graph of create_travel_planner_workflow.  A
\* run holds one AgentState; flow.at is the node the graph runs next,
\* flow.ran the nodes that have returned, flow.steps the values current_step
\* has taken, flow.failed the nodes whose except handler ran.  An agent call
\* inside a node either returns or raises.

Stages == <<"parse_user_input", "explore_pois", "plan_budget", "create_itinerary",
            "format_output">>

\* a state that would keep every key handed to it
AgentState_open(update) == update

\* what the graph keeps of a set of keys handed to it: the state has one
\* channel per key of AgentState, and `budget_shown_<destination>_<days>`
\* is not one of them, like the extra keys cli.py passes in
AgentState(update) == [update EXCEPT !.budget_shown = FALSE]

InitFlow ==
    /\ TimeIdle
    /\ ProcIdle
    /\ SelIdle
    /\ \E text \in BOOLEAN, format \in {"markdown", "json"}, summary \in BOOLEAN,
          shown \in BOOLEAN :
          flow = AgentState([at |-> Stages[1], ran |-> <<>>, steps |-> <<>>,
                             failed |-> {}, current_step |-> "None",
                             user_input |-> text, output_format |-> format,
                             budget_in_messages |-> summary, budget_shown |-> shown,
                             travel_request |-> "None", explorer_output |-> "None",
                             budget_output |-> "None", itinerary_output |-> "None",
                             formatter_output |-> "None", error |-> "None"])

ParseUserInput ==
    /\ flow.at = "parse_user_input"
    /\ \E planner \in {"returns", "raises"} :
          LET raised == ~flow.user_input \/ planner = "raises"
          IN  flow' = AgentState(
                  [flow EXCEPT !.at = "explore_pois",
                               !.ran = Append(@, "parse_user_input"),
                               !.steps = Append(@, "parse_user_input"),
                               !.current_step = "parse_user_input",
                               !.travel_request = IF raised THEN @ ELSE "request",
                               !.failed = IF raised THEN @ \cup {"parse_user_input"} ELSE @,
                               !.error = IF raised THEN "Error parsing user input" ELSE @])
    /\ UNCHANGED <<timeVars, procVars, selVars>>

ExplorePois ==
    /\ flow.at = "explore_pois"
    /\ \E explorer \in {"returns", "raises"} :
          LET raised == flow.travel_request = "None" \/ explorer = "raises"
          IN  flow' = AgentState(
                  [flow EXCEPT !.at = "plan_budget",
                               !.ran = Append(@, "explore_pois"),
                               !.steps = Append(@, "explore_pois"),
                               !.current_step = "explore_pois",
                               !.explorer_output = IF raised THEN @ ELSE "pois",
                               !.failed = IF raised THEN @ \cup {"explore_pois"} ELSE @,
                               !.error = IF raised THEN "Error exploring POIs" ELSE @])
    /\ UNCHANGED <<timeVars, procVars, selVars>>

\* `return state` when the budget was already shown, the early return when
\* the messages hold the budget summary, else the estimate
PlanBudget ==
    /\ flow.at = "plan_budget"
    /\ \E budget_agent \in {"returns", "raises"} :
          LET raised == flow.travel_request = "None"
                        \/ (~flow.budget_in_messages /\ budget_agent = "raises")
          IN  IF flow.travel_request # "None" /\ flow.budget_shown
              THEN flow' = AgentState(
                       [flow EXCEPT !.at = "create_itinerary",
                                    !.ran = Append(@, "plan_budget"),
                                    !.steps = Append(@, flow.current_step)])
              ELSE flow' = AgentState(
                       [flow EXCEPT !.at = "create_itinerary",
                                    !.ran = Append(@, "plan_budget"),
                                    !.steps = Append(@, "plan_budget"),
                                    !.current_step = "plan_budget",
                                    !.budget_shown = IF raised THEN @ ELSE TRUE,
                                    !.explorer_output =
                                        IF raised \/ ~flow.budget_in_messages THEN @
                                        ELSE IF @ = "None" THEN "empty" ELSE @,
                                    !.budget_output =
                                        IF raised \/ flow.budget_in_messages THEN @
                                        ELSE "budget",
                                    !.failed = IF raised THEN @ \cup {"plan_budget"} ELSE @,
                                    !.error = IF raised THEN "Error in budget planning" ELSE @])
    /\ UNCHANGED <<timeVars, procVars, selVars>>

CreateItinerary ==
    /\ flow.at = "create_itinerary"
    /\ \E process \in {"returns", "raises"} :
          LET raised == flow.travel_request = "None" \/ process = "raises"
          IN  flow' = AgentState(
                  [flow EXCEPT !.at = "format_output",
                               !.ran = Append(@, "create_itinerary"),
                               !.steps = Append(@, "create_itinerary"),
                               !.current_step = "create_itinerary",
                               !.itinerary_output = IF raised THEN @ ELSE "itinerary",
                               !.failed = IF raised THEN @ \cup {"create_itinerary"} ELSE @,
                               !.error = IF raised THEN "Error creating itinerary" ELSE @])
    /\ UNCHANGED <<timeVars, procVars, selVars>>

\* the state format_output returns without the text for a missing itinerary
format_output_silent(state, formatter) ==
    [state EXCEPT !.current_step = "format_output",
                  !.formatter_output =
                      IF state.itinerary_output = "None" THEN @ ELSE "formatted",
                  !.error = IF state.itinerary_output = "None"
                            THEN "No itinerary available to format" ELSE @]

\* the state format_output returns; formatter is what format_itinerary and
\* the handlers around it do
format_output(state, formatter) ==
    LET returned(text, message) ==
            [state EXCEPT !.current_step = "format_output",
                          !.formatter_output = text,
                          !.error = IF message = "None" THEN @ ELSE message]
    IN  IF state.itinerary_output = "None"
        THEN returned("No itinerary data available", "No itinerary available to format")
        ELSE IF state.itinerary_output = "itinerary without daily_plans"
        THEN returned("No daily plans found in the itinerary", "No daily plans in itinerary")
        ELSE CASE formatter = "text" -> returned("formatted", "None")
               [] formatter = "empty" -> returned("No formatted output available", "None")
               [] formatter = "raises, fallback formats" ->
                      returned("Your Travel Itinerary", "None")
               [] formatter = "raises, fallback raises" ->
                      returned("We had trouble formatting your itinerary", "Formatting failed")
               [] OTHER -> returned("Error", "Error in format_output")

FormatOutput ==
    /\ flow.at = "format_output"
    /\ \E formatter \in {"text", "empty", "raises, fallback formats",
                         "raises, fallback raises", "handler raises"} :
          LET state == format_output(flow, formatter)
          IN  flow' = AgentState(
                  [state EXCEPT !.at = "END",
                                !.ran = Append(@, "format_output"),
                                !.steps = Append(@, state.current_step),
                                !.failed = IF state.error = flow.error THEN @
                                           ELSE @ \cup {"format_output"}])
    /\ UNCHANGED <<timeVars, procVars, selVars>>

NextFlow == ParseUserInput \/ ExplorePois \/ PlanBudget \/ CreateItinerary \/ FormatOutput

SpecFlow == InitFlow /\ [][NextFlow]_vars

\* the graph runs the next node as long as there is one, and every agent
\* call comes back
FairSpecFlow == SpecFlow /\ WF_vars(NextFlow)

\* C26: a run of the workflow goes through parse_user_input, explore_pois,
\* plan_budget, create_itinerary and format_output in this order: the nodes
\* that have returned are a prefix of that list (each once), the node to run
\* next is the one after the last returned (a node starts only after its
\* predecessor returned), current_step has taken exactly the names of the
\* returned nodes in that order, and after format_output the run is over.
StagesRunInOrder ==
    /\ Len(flow.ran) <= Len(Stages)
    /\ flow.ran = SubSeq(Stages, 1, Len(flow.ran))
    /\ flow.steps = flow.ran
    /\ flow.current_step = IF flow.ran = <<>> THEN "None" ELSE Stages[Len(flow.ran)]
    /\ flow.at = IF flow.ran = Stages THEN "END" ELSE Stages[Len(flow.ran) + 1]

\* a run is over, all five nodes returned and none failed
RunOverWithoutError ==
    /\ flow.at = "END"
    /\ flow.steps = Stages
    /\ flow.failed = {}
    /\ flow.formatter_output = "formatted"

\* C29: every run of the workflow comes to its end, with all five nodes
\* returned and formatter_output set, whatever the agents did.  A node that
\* fails (no user input, an agent raising, ItineraryAgent.process raising)
\* leaves its message in `error` and the nodes after it still run; `error`,
\* once set, is never cleared; and when create_itinerary failed,
\* itinerary_output is still unset and format_output answers that no
\* itinerary data is available.
EveryRunEndsFormatted ==
    /\ (flow.at = Stages[1]) ~> (flow.at = "END")
    /\ [](flow.at = "END" => (flow.ran = Stages /\ flow.formatter_output # "None"))
    /\ [](flow.failed # {} => flow.error # "None")
    /\ [][flow.error # "None" => flow'.error # "None"]_vars
    /\ [][flow'.failed # flow.failed => flow'.error # flow.error]_vars
    /\ []("create_itinerary" \in flow.failed =>
             /\ flow.itinerary_output = "None"
             /\ flow.at = "END" =>
                   /\ flow.formatter_output = "No itinerary data available"
                   /\ flow.error = "No itinerary available to format")

\* a run is over in which the request was parsed and process raised
RunOverAfterProcessRaised ==
    /\ flow.at = "END"
    /\ flow.travel_request = "request"
    /\ flow.failed = {"create_itinerary", "format_output"}
    /\ flow.formatter_output = "No itinerary data available"

====
